---- MODULE Spec2Model ----
(***************************************************************************)
(* GitHub wiki MCP server: page-name normalization (normalizePageName),    *)
(* the five wiki operations of wiki-operations.ts (write, read, append,    *)
(* list, delete), each a clone / local file operation / add / commit /     *)
(* push / cleanup sequence, and the tool-call handler that wraps them.     *)
(*                                                                         *)
(* A JavaScript string is a sequence of one-character strings, so that     *)
(* replace, endsWith, concatenation and comparison are computed and not    *)
(* assumed.                                                                *)
(***************************************************************************)
EXTENDS Integers, Sequences, FiniteSets, TLC

\* ------------------------------------------------------------------ bounds
\* longest title drawn for the normalization specification
MaxLen == 3
\* most commits the remote store accepts in one behaviour
MaxHead == 2
\* most entries of a directory drawn for the listing specification
MaxFiles == 3
\* longest title drawn for the write specification
MaxWriteLen == 2

\* ------------------------------------------------------------- characters
LowerLetters ==
    {"a", "b", "c", "d", "e", "f", "g", "h", "i", "j", "k", "l", "m"} \cup
    {"n", "o", "p", "q", "r", "s", "t", "u", "v", "w", "x", "y", "z"}
UpperLetters ==
    {"A", "B", "C", "D", "E", "F", "G", "H", "I", "J", "K", "L", "M"} \cup
    {"N", "O", "P", "Q", "R", "S", "T", "U", "V", "W", "X", "Y", "Z"}
Digits == {"0", "1", "2", "3", "4", "5", "6", "7", "8", "9"}
Whitespace == {" ", "\t", "\n"}

\* /[^a-zA-Z0-9\-_]/ : the characters the second replace keeps
AllowedCharMutant(ch) == ch \in LowerLetters \cup UpperLetters \cup Digits \cup {"-", "_", ".", "/"}

AllowedChar(ch) == ch \in LowerLetters \cup UpperLetters \cup Digits \cup {"-", "_"}

\* /\s/
IsSpace(ch) == ch \in Whitespace

MD == <<".", "m", "d">>

\* String.prototype.endsWith
EndsWith(s, suffix) ==
    /\ Len(s) >= Len(suffix)
    /\ SubSeq(s, Len(s) - Len(suffix) + 1, Len(s)) = suffix

\* index of the first occurrence of pat in s, 0 when there is none
IndexOf(s, pat) ==
    LET hits == {i \in 1..(Len(s) - Len(pat) + 1) : SubSeq(s, i, i + Len(pat) - 1) = pat}
    IN IF hits = {} THEN 0 ELSE CHOOSE i \in hits : \A j \in hits : i <= j

\* s.replace(pat, '') with a string pattern: removes the first occurrence only
ReplaceFirst(s, pat) ==
    LET i == IndexOf(s, pat)
    IN IF i = 0 THEN s
       ELSE SubSeq(s, 1, i - 1) \o SubSeq(s, i + Len(pat), Len(s))

\* .replace(/\s+/g, '-') : every maximal run of whitespace becomes one hyphen
ReplaceSpaceRunsMutant(s) ==
    [i \in 1..Len(s) |-> IF IsSpace(s[i]) THEN "-" ELSE s[i]]

RECURSIVE SpaceRunsFrom(_, _)
SpaceRunsFrom(s, i) ==
    IF i > Len(s) THEN <<>>
    ELSE IF IsSpace(s[i])
         THEN IF i > 1 /\ IsSpace(s[i - 1])
              THEN SpaceRunsFrom(s, i + 1)
              ELSE <<"-">> \o SpaceRunsFrom(s, i + 1)
         ELSE <<s[i]>> \o SpaceRunsFrom(s, i + 1)

ReplaceSpaceRuns(s) == SpaceRunsFrom(s, 1)

\* .replace(/[^a-zA-Z0-9\-_]/g, '')
StripDisallowedMutant(s) == SelectSeq(s, LAMBDA ch : AllowedChar(ch) \/ ch = ".")

StripDisallowed(s) == SelectSeq(s, AllowedChar)

normalizePageName(pageName) ==
    LET normalized == StripDisallowed(ReplaceSpaceRuns(pageName))
    IN IF EndsWith(normalized, MD) THEN normalized ELSE normalized \o MD

\* ------------------------------------------------------------- path.join
\* the separators of a path: "/" and, on win32, "\"
PathSeparators == {"/", "\\"}

\* the segments between the separators of a path
RECURSIVE SplitFrom(_, _, _)
SplitFrom(s, i, cur) ==
    IF i > Len(s) THEN <<cur>>
    ELSE IF s[i] \in PathSeparators
         THEN <<cur>> \o SplitFrom(s, i + 1, <<>>)
         ELSE SplitFrom(s, i + 1, Append(cur, s[i]))

Segments(s) == SplitFrom(s, 1, <<>>)

\* path.normalize of an absolute path: empty and "." segments go, ".."
\* takes the segment before it away
RECURSIVE NormalizeFrom(_, _, _)
NormalizeFrom(segs, i, out) ==
    IF i > Len(segs) THEN out
    ELSE IF segs[i] \in {<<>>, <<".">>} THEN NormalizeFrom(segs, i + 1, out)
    ELSE IF segs[i] = <<".", ".">>
         THEN NormalizeFrom(segs, i + 1, IF out = <<>> THEN out ELSE SubSeq(out, 1, Len(out) - 1))
         ELSE NormalizeFrom(segs, i + 1, Append(out, segs[i]))

\* path.join(dir, name), dir given by its segments
pathJoin(dir, name) == NormalizeFrom(dir \o Segments(name), 1, <<>>)

\* the directory fs.mkdtemp(path.join(os.tmpdir(), 'wiki-')) made
TmpDir == <<<<"t", "m", "p">>, <<"w", "i", "k", "i", "-">>>>

\* ------------------------------------------------------------ collation
\* a.name.localeCompare(b.name): multi-level comparison, first on the
\* letters regardless of case (punctuation before digits before letters),
\* then lower case before upper case
PrimaryOrder == <<"_", "-", "!", ".", "0", "1", "a", "b", "c", "d", "g", "i", "m", "t", "x", "y">>

Lower(ch) == IF ch = "A" THEN "a" ELSE IF ch = "B" THEN "b" ELSE ch

Primary(ch) == CHOOSE i \in 1..Len(PrimaryOrder) : PrimaryOrder[i] = Lower(ch)

Tertiary(ch) == IF ch \in UpperLetters THEN 1 ELSE 0

RECURSIVE CompareKeys(_, _, _)
CompareKeys(ka, kb, i) ==
    IF i > Len(ka) /\ i > Len(kb) THEN 0
    ELSE IF i > Len(ka) THEN -1
    ELSE IF i > Len(kb) THEN 1
    ELSE IF ka[i] < kb[i] THEN -1
    ELSE IF ka[i] > kb[i] THEN 1
    ELSE CompareKeys(ka, kb, i + 1)

localeCompare(a, b) ==
    LET c == CompareKeys([i \in 1..Len(a) |-> Primary(a[i])], [i \in 1..Len(b) |-> Primary(b[i])], 1)
    IN IF c # 0 THEN c
       ELSE CompareKeys([i \in 1..Len(a) |-> Tertiary(a[i])], [i \in 1..Len(b) |-> Tertiary(b[i])], 1)

\* Array.prototype.sort((a, b) => a.name.localeCompare(b.name)): a stable
\* insertion sort, each record put behind the records that do not compare
\* greater than it
RECURSIVE InsertByName(_, _, _)
InsertByName(sorted, rec, i) ==
    IF i = 0 \/ localeCompare(sorted[i].name, rec.name) <= 0
    THEN SubSeq(sorted, 1, i) \o <<rec>> \o SubSeq(sorted, i + 1, Len(sorted))
    ELSE InsertByName(sorted, rec, i - 1)

RECURSIVE SortByName(_)
SortByName(recs) ==
    IF recs = <<>> THEN <<>>
    ELSE LET front == SortByName(SubSeq(recs, 1, Len(recs) - 1))
         IN InsertByName(front, recs[Len(recs)], Len(front))

\* ------------------------------------------------------------------ state
VARIABLES
    remote,     \* the remote wiki store: its tree (file name -> content) and the number of its head commit
    lastPush,   \* the writer of the last push the remote store accepted: tool, file name, content argument
    inv,        \* one record per tool invocation in flight
    nPc, nTitle, nFile, nAgain   \* a title put through normalizePageName twice

wvars == <<remote, lastPush, inv>>
nvars == <<nPc, nTitle, nFile, nAgain>>
vars == <<remote, lastPush, inv, nPc, nTitle, nFile, nAgain>>

\* the invocation slots of the server; Client is the slot whose invocations
\* are followed step by step, every other writer of the remote store (a
\* second invocation included) being an OtherWriter push
Procs == {1, 2}
Client == 1

\* an argument the caller left out
Undefined == <<"undefined">>

\* String(undefined), as a template literal renders it
UndefinedText == <<"u", "n", "d", "e", "f", "i", "n", "e", "d">>

\* "\n\n"
Separator == <<"\n", "\n">>

GitDir == <<".", "g", "i", "t">>

MutatingTools == {"write_wiki_page", "append_to_wiki_page", "delete_wiki_page"}
PageTools == MutatingTools \cup {"read_wiki_page"}
Tools == PageTools \cup {"list_wiki_pages"}
ToolNames == Tools \cup {"unknown_tool"}

\* the argument values drawn for an invocation
PageNameArgs == {<<"a", "!">>, <<"b">>, Undefined}
ContentArgs == {<<>>, <<"x">>, Undefined}

NoTree == [f \in {} |-> <<>>]

\* fs.writeFile(path.join(tmpDir, fileName), data): creates the file or
\* replaces its whole content
WriteTreeMutant(tree, fileName, data) ==
    [f \in DOMAIN tree \cup {fileName} |-> IF f \in DOMAIN tree THEN tree[f] ELSE data]

WriteTree(tree, fileName, data) ==
    [f \in DOMAIN tree \cup {fileName} |-> IF f = fileName THEN data ELSE tree[f]]

\* whether path.join(tmpDir, fileName) names an entry of the working copy
ExistsMutant(tree, fileName) == TRUE

Exists(tree, fileName) == fileName \in DOMAIN tree

\* fs.unlink(path.join(tmpDir, fileName))
UnlinkTree(tree, fileName) == [f \in DOMAIN tree \ {fileName} |-> tree[f]]

NoError == [kind |-> "none", file |-> <<>>, cause |-> "none"]
Error(kind) == [kind |-> kind, file |-> <<>>, cause |-> "none"]
\* new Error(`Page ${fileName} does not exist`)
NotFound(fileName) == [kind |-> "NotFound", file |-> fileName, cause |-> "none"]
\* new Error(`Failed to clone wiki: ${error.message}`)
FailedToClone == [kind |-> "FailedToClone", file |-> <<>>, cause |-> "GitError"]

NoResult == [kind |-> "none", success |-> FALSE, page |-> <<>>, url |-> <<>>,
             content |-> <<>>, pages |-> <<>>, error |-> NoError]

NoResponse == [sent |-> FALSE, raised |-> FALSE, isError |-> FALSE, payload |-> NoResult]

\* the catch clause of the handler: { success: false, error: errorMessage }, isError: true
FailureResponse(e) ==
    [sent |-> TRUE, raised |-> FALSE, isError |-> TRUE,
     payload |-> [NoResult EXCEPT !.kind = "failure", !.error = e]]

\* the return of a case of the handler: JSON.stringify(result), no isError
SuccessResponse(result) == [sent |-> TRUE, raised |-> FALSE, isError |-> FALSE, payload |-> result]

\* the handler's try / catch around the switch: whatever a case throws,
\* the default case included, is turned into a failure response
RespondMutant(e, result) ==
    IF e.kind = "UnknownTool" THEN [NoResponse EXCEPT !.raised = TRUE]
    ELSE IF e.kind # "none" THEN FailureResponse(e) ELSE SuccessResponse(result)

Respond(e, result) == IF e.kind # "none" THEN FailureResponse(e) ELSE SuccessResponse(result)

Idle ==
    [pc |-> "idle", tool |-> "none", owner |-> "", repo |-> "",
     pageName |-> Undefined, content |-> Undefined,
     fileName |-> <<>>, tmpDir |-> FALSE, wc |-> NoTree, snap |-> NoTree, base |-> 0,
     existingContent |-> <<>>, ahead |-> FALSE, err |-> NoError, result |-> NoResult,
     response |-> NoResponse,
     \* history of the invocation
     allocated |-> FALSE, dirExists |-> FALSE, rmCount |-> 0, steps |-> <<>>, pushed |-> FALSE,
     seen |-> [tool |-> "none", file |-> <<>>, content |-> <<>>], fault |-> FALSE]

Merge(r, u) == [k \in DOMAIN r |-> IF k \in DOMAIN u THEN u[k] ELSE r[k]]

Set(p, u) == inv' = [inv EXCEPT ![p] = Merge(@, u)]

NoPush == [tool |-> "none", file |-> <<>>, content |-> <<>>]

InitTrees ==
    { NoTree,
      [f \in {<<"a">> \o MD} |-> <<"x">>],
      [f \in {<<"a">> \o MD} |-> <<>>] }

NormOff ==
    /\ nPc = "off"
    /\ nTitle = <<>>
    /\ nFile = <<>>
    /\ nAgain = <<>>

Init ==
    /\ remote \in {[tree |-> t, head |-> 0] : t \in InitTrees}
    /\ lastPush = NoPush
    /\ inv = [p \in Procs |-> Idle]
    /\ NormOff

\* --------------------------------------------------------------- handler
\* CallToolRequestSchema handler up to the first await of the operation:
\* the switch on the tool name, the destructuring of the arguments and
\* normalizePageName(pageName)
InvokeFor(p, owner, repo, name, pageName, content) ==
    /\ inv[p].pc \in {"idle", "done"}
    /\ name \in MutatingTools => remote.head < MaxHead
    /\ LET fresh == Merge(Idle, [tool |-> name, owner |-> owner, repo |-> repo,
                                 pageName |-> pageName, content |-> content])
       IN IF name \notin Tools
          THEN inv' = [inv EXCEPT ![p] = Merge(fresh,
                    [pc |-> "done", response |-> Respond(Error("UnknownTool"), NoResult)])]
          ELSE IF name \in PageTools /\ pageName = Undefined
          THEN \* pageName.replace of undefined
               inv' = [inv EXCEPT ![p] = Merge(fresh,
                    [pc |-> "done", response |-> Respond(Error("TypeError"), NoResult)])]
          ELSE inv' = [inv EXCEPT ![p] = Merge(fresh,
                    [pc |-> "clone",
                     fileName |-> IF name \in PageTools THEN normalizePageName(pageName) ELSE <<>>])]
    /\ UNCHANGED <<remote, lastPush>>
    /\ UNCHANGED nvars

\* the wiki an invocation names when the claim at hand is not about it
DefaultOwner == "octocat"
DefaultRepo == "hello"

InvokeTool(p, name, pageName, content) ==
    InvokeFor(p, DefaultOwner, DefaultRepo, name, pageName, content)

Invoke(p) ==
    \E name \in ToolNames :
        \E pageName \in (IF name \in PageTools THEN PageNameArgs ELSE {Undefined}) :
            \E content \in (IF name \in {"write_wiki_page", "append_to_wiki_page"}
                            THEN ContentArgs ELSE {Undefined}) :
                InvokeTool(p, name, pageName, content)

\* ------------------------------------------------------------- cloneWiki
\* mkdtemp, git.clone and, when the clone fails, fs.rm and the rethrow
cloneWiki(p) ==
    /\ inv[p].pc = "clone"
    /\ \E outcome \in {"cloned", "mkdtemp failed", "clone failed", "clone failed, rm failed"} :
        CASE outcome = "cloned" ->
                Set(p, [pc |-> "local", tmpDir |-> TRUE, allocated |-> TRUE, dirExists |-> TRUE,
                        wc |-> remote.tree, snap |-> remote.tree, base |-> remote.head,
                        seen |-> lastPush,
                        steps |-> Append(inv[p].steps, "clone")])
          [] outcome = "mkdtemp failed" ->
                Set(p, [pc |-> "done", fault |-> TRUE,
                        response |-> Respond(Error("IOError"), NoResult)])
          [] outcome = "clone failed" ->
                Set(p, [pc |-> "done", fault |-> TRUE, rmCount |-> inv[p].rmCount + 1,
                        allocated |-> TRUE,
                        steps |-> inv[p].steps \o <<"clone failed", "rm">>,
                        response |-> Respond(FailedToClone, NoResult)])
          [] outcome = "clone failed, rm failed" ->
                Set(p, [pc |-> "done", fault |-> TRUE, rmCount |-> inv[p].rmCount + 1,
                        allocated |-> TRUE, dirExists |-> TRUE,
                        steps |-> inv[p].steps \o <<"clone failed", "rm failed">>,
                        response |-> Respond(Error("RmError"), NoResult)])
    /\ UNCHANGED <<remote, lastPush>>
    /\ UNCHANGED nvars

\* a step of an operation throws inside try { ... } finally { cleanup }:
\* control goes to the finally clause with the error pending; env tells
\* whether the error came from the environment and not from the arguments
\* or the state of the working copy
ThrowMutant(p, e, step, env) ==
    Set(p, [pc |-> "done", err |-> e, fault |-> (inv[p].fault \/ env),
            steps |-> Append(inv[p].steps, step),
            response |-> Respond(e, NoResult)])

Throw(p, e, step, env) ==
    Set(p, [pc |-> "cleanup", err |-> e, fault |-> (inv[p].fault \/ env),
            steps |-> Append(inv[p].steps, step)])

\* ---------------------------------------------------------- writeWikiPage
\* fs.writeFile(filePath, content, 'utf-8')
WriteFile(p) ==
    /\ inv[p].pc = "local"
    /\ inv[p].tool = "write_wiki_page"
    /\ \E ok \in BOOLEAN :
        IF inv[p].content = Undefined
        THEN ok /\ Throw(p, Error("TypeError"), "writeFile failed", FALSE)
        ELSE IF ok
        THEN Set(p, [pc |-> "add", wc |-> WriteTree(inv[p].wc, inv[p].fileName, inv[p].content),
                     steps |-> Append(inv[p].steps, "writeFile")])
        ELSE Throw(p, Error("IOError"), "writeFile failed", TRUE)
    /\ UNCHANGED <<remote, lastPush>>
    /\ UNCHANGED nvars

\* ------------------------------------------------------- appendToWikiPage
\* existingContent = await fs.readFile(filePath, 'utf-8'), any error swallowed
AppendRead(p) ==
    /\ inv[p].pc = "local"
    /\ inv[p].tool = "append_to_wiki_page"
    /\ \E ok \in BOOLEAN :
        IF inv[p].fileName \in DOMAIN inv[p].wc /\ ok
        THEN Set(p, [pc |-> "write", existingContent |-> inv[p].wc[inv[p].fileName],
                     steps |-> Append(inv[p].steps, "readExisting")])
        ELSE Set(p, [pc |-> "write", existingContent |-> <<>>,
                     fault |-> (inv[p].fileName \in DOMAIN inv[p].wc),
                     steps |-> Append(inv[p].steps, "readExisting failed")])
    /\ UNCHANGED <<remote, lastPush>>
    /\ UNCHANGED nvars

\* `${existingContent}\n\n${content}`
Template(existingContent, content) ==
    existingContent \o Separator \o (IF content = Undefined THEN UndefinedText ELSE content)

\* newContent = existingContent ? `${existingContent}\n\n${content}` : content
NewContent(existingContent, content) ==
    IF existingContent # <<>> THEN Template(existingContent, content) ELSE content

\* fs.writeFile(filePath, newContent, 'utf-8')
AppendWrite(p) ==
    /\ inv[p].pc = "write"
    /\ LET newContent == NewContent(inv[p].existingContent, inv[p].content)
       IN \E ok \in BOOLEAN :
            IF newContent = Undefined
            THEN ok /\ Throw(p, Error("TypeError"), "writeFile failed", FALSE)
            ELSE IF ok
            THEN Set(p, [pc |-> "add", wc |-> WriteTree(inv[p].wc, inv[p].fileName, newContent),
                         steps |-> Append(inv[p].steps, "writeFile")])
            ELSE Throw(p, Error("IOError"), "writeFile failed", TRUE)
    /\ UNCHANGED <<remote, lastPush>>
    /\ UNCHANGED nvars

\* ------------------------------------------ deleteWikiPage, readWikiPage
\* try { await fs.access(filePath) } catch { throw new Error(`Page ... does not exist`) }
Access(p) ==
    /\ inv[p].pc = "local"
    /\ inv[p].tool \in {"delete_wiki_page", "read_wiki_page"}
    /\ \E ok \in BOOLEAN :
        IF Exists(inv[p].wc, inv[p].fileName) /\ ok
        THEN Set(p, [pc |-> IF inv[p].tool = "read_wiki_page" THEN "readFile" ELSE "unlink",
                     steps |-> Append(inv[p].steps, "access")])
        ELSE Throw(p, NotFound(inv[p].fileName), "access failed", Exists(inv[p].wc, inv[p].fileName))
    /\ UNCHANGED <<remote, lastPush>>
    /\ UNCHANGED nvars

\* fs.unlink(filePath)
Unlink(p) ==
    /\ inv[p].pc = "unlink"
    /\ \E ok \in BOOLEAN :
        IF ok
        THEN Set(p, [pc |-> "add", wc |-> UnlinkTree(inv[p].wc, inv[p].fileName),
                     steps |-> Append(inv[p].steps, "unlink")])
        ELSE Throw(p, Error("IOError"), "unlink failed", TRUE)
    /\ UNCHANGED <<remote, lastPush>>
    /\ UNCHANGED nvars

\* content = await fs.readFile(filePath, 'utf-8'); return { success, page, content }
ReadFileMutant(p) ==
    /\ inv[p].pc = "readFile"
    /\ Set(p, [pc |-> "add",
               result |-> [NoResult EXCEPT !.kind = "object", !.success = TRUE,
                                           !.page = inv[p].fileName],
               steps |-> Append(inv[p].steps, "readFile")])
    /\ UNCHANGED <<remote, lastPush>>
    /\ UNCHANGED nvars

ReadFile(p) ==
    /\ inv[p].pc = "readFile"
    /\ \E ok \in BOOLEAN :
        IF inv[p].fileName \notin DOMAIN inv[p].wc
        THEN ok /\ Throw(p, Error("IOError"), "readFile failed", FALSE)
        ELSE IF ok
        THEN Set(p, [pc |-> "cleanup",
                     result |-> [NoResult EXCEPT !.kind = "object", !.success = TRUE,
                                                 !.page = inv[p].fileName,
                                                 !.content = inv[p].wc[inv[p].fileName]],
                     steps |-> Append(inv[p].steps, "readFile")])
        ELSE Throw(p, Error("IOError"), "readFile failed", TRUE)
    /\ UNCHANGED <<remote, lastPush>>
    /\ UNCHANGED nvars

\* ---------------------------------------------------------- listWikiPages
\* files.filter((f) => f.endsWith('.md'))
IsMarkdownMutant(f) == IndexOf(f, MD) # 0

IsMarkdown(f) == EndsWith(f, MD)

\* { name: file.replace('.md', ''), path: file, size: stats.size }
PageInfo(file, size) == [name |-> ReplaceFirst(file, MD), path |-> file, size |-> size]

\* the orders in which fs.readdir may return the entries
Orders(S) == {o \in [1..Cardinality(S) -> S] : \A i, j \in DOMAIN o : i # j => o[i] # o[j]}

\* readdir, filter, the stat loop and the sort
pageInfos(files, tree) ==
    LET mdFiles == SelectSeq(files, IsMarkdown)
    IN SortByName([i \in 1..Len(mdFiles) |->
                     PageInfo(mdFiles[i], IF mdFiles[i] \in DOMAIN tree THEN Len(tree[mdFiles[i]]) ELSE 0)])

ListPages(p) ==
    /\ inv[p].pc = "local"
    /\ inv[p].tool = "list_wiki_pages"
    /\ \E ok \in BOOLEAN :
        IF ok
        THEN \E files \in Orders(DOMAIN inv[p].wc \cup {GitDir}) :
                Set(p, [pc |-> "cleanup",
                        result |-> [NoResult EXCEPT !.kind = "array",
                                                    !.pages = pageInfos(files, inv[p].wc)],
                        steps |-> Append(inv[p].steps, "list")])
        ELSE Throw(p, Error("IOError"), "list failed", TRUE)
    /\ UNCHANGED <<remote, lastPush>>
    /\ UNCHANGED nvars

\* ------------------------------------------------------ add, commit, push
\* git.add(fileName)
AddMutant(p) ==
    /\ inv[p].pc = "add"
    /\ \E ok \in BOOLEAN :
        Set(p, [pc |-> "commit", fault |-> (inv[p].fault \/ ~ok),
                steps |-> Append(inv[p].steps, IF ok THEN "add" ELSE "add failed")])
    /\ UNCHANGED <<remote, lastPush>>
    /\ UNCHANGED nvars

Add(p) ==
    /\ inv[p].pc = "add"
    /\ \E ok \in BOOLEAN :
        IF ok
        THEN Set(p, [pc |-> "commit", steps |-> Append(inv[p].steps, "add")])
        ELSE Throw(p, Error("GitError"), "add failed", TRUE)
    /\ UNCHANGED <<remote, lastPush>>
    /\ UNCHANGED nvars

\* git.commit(message): a commit on top of the clone when the tree changed
Commit(p) ==
    /\ inv[p].pc = "commit"
    /\ \E ok \in BOOLEAN :
        IF ok
        THEN Set(p, [pc |-> "push", ahead |-> (inv[p].wc # inv[p].snap),
                     steps |-> Append(inv[p].steps, "commit")])
        ELSE Throw(p, Error("GitError"), "commit failed", TRUE)
    /\ UNCHANGED <<remote, lastPush>>
    /\ UNCHANGED nvars

\* `https://github.com/${owner}/${repo}/wiki/${fileName.replace('.md', '')}`
wikiPageUrlMutant(owner, repo, fileName) ==
    <<"https://github.com/", owner, "/", repo, "/wiki/">> \o fileName

wikiPageUrl(owner, repo, fileName) ==
    <<"https://github.com/", owner, "/", repo, "/wiki/">> \o ReplaceFirst(fileName, MD)

\* the value the operation returns after its push
Returned(tool, owner, repo, fileName) ==
    [NoResult EXCEPT !.kind = "object", !.success = TRUE, !.page = fileName,
                     !.url = IF tool = "write_wiki_page"
                             THEN wikiPageUrl(owner, repo, fileName) ELSE <<>>]

\* git.push('origin', 'master'), no force: the remote store takes the
\* commit only on top of the head the invocation cloned
FastForwardMutant(head, base) == TRUE

FastForward(head, base) == head = base

PushMutant(p) ==
    /\ inv[p].pc = "push"
    /\ \E ok \in BOOLEAN :
        IF ok /\ FastForward(remote.head, inv[p].base)
        THEN /\ Set(p, [pc |-> "cleanup", pushed |-> inv[p].ahead,
                        result |-> Returned(inv[p].tool, inv[p].owner, inv[p].repo, inv[p].fileName),
                        steps |-> Append(inv[p].steps, "push")])
             /\ remote' = IF inv[p].ahead
                          THEN [tree |-> inv[p].wc, head |-> remote.head + 1]
                          ELSE remote
             /\ lastPush' = [tool |-> inv[p].tool, file |-> inv[p].fileName,
                             content |-> inv[p].content]
        ELSE /\ inv' = [inv EXCEPT ![p] =
                            Merge(Idle, [pc |-> "clone", tool |-> inv[p].tool,
                                         owner |-> inv[p].owner, repo |-> inv[p].repo,
                                         pageName |-> inv[p].pageName,
                                         content |-> inv[p].content,
                                         fileName |-> inv[p].fileName, fault |-> TRUE])]
             /\ UNCHANGED <<remote, lastPush>>
    /\ UNCHANGED nvars

Push(p) ==
    /\ inv[p].pc = "push"
    /\ \E ok \in BOOLEAN :
        IF ok /\ FastForward(remote.head, inv[p].base)
        THEN /\ Set(p, [pc |-> "cleanup", pushed |-> inv[p].ahead,
                        result |-> Returned(inv[p].tool, inv[p].owner, inv[p].repo, inv[p].fileName),
                        steps |-> Append(inv[p].steps, "push")])
             /\ remote' = IF inv[p].ahead
                          THEN [tree |-> inv[p].wc, head |-> remote.head + 1]
                          ELSE remote
             /\ lastPush' = [tool |-> inv[p].tool, file |-> inv[p].fileName,
                             content |-> inv[p].content]
        ELSE /\ Throw(p, Error("GitError"), "push failed", remote.head = inv[p].base)
             /\ UNCHANGED <<remote, lastPush>>
    /\ UNCHANGED nvars

\* ---------------------------------------------------------------- cleanup
\* what reaches the caller of cleanup(tmpDir): nothing, the rm error is logged
cleanupErrorMutant(pending, rmOk) == IF rmOk THEN pending ELSE Error("RmError")

cleanupError(pending, rmOk) == pending

\* finally { if (tmpDir) await cleanup(tmpDir) }, then the handler's return
Cleanup(p) ==
    /\ inv[p].pc = "cleanup"
    /\ inv[p].tmpDir
    /\ \E rmOk \in BOOLEAN :
        LET e == cleanupError(inv[p].err, rmOk)
        IN Set(p, [pc |-> "done", err |-> e, dirExists |-> ~rmOk,
                   rmCount |-> inv[p].rmCount + 1,
                   steps |-> Append(inv[p].steps, IF rmOk THEN "rm" ELSE "rm failed"),
                   response |-> Respond(e, inv[p].result)])
    /\ UNCHANGED <<remote, lastPush>>
    /\ UNCHANGED nvars

Step(p) ==
    \/ Invoke(p)
    \/ cloneWiki(p)
    \/ WriteFile(p)
    \/ AppendRead(p)
    \/ AppendWrite(p)
    \/ Access(p)
    \/ Unlink(p)
    \/ ReadFile(p)
    \/ ListPages(p)
    \/ Add(p)
    \/ Commit(p)
    \/ Push(p)
    \/ Cleanup(p)

\* --------------------------------------------------------- other writers
\* another client of the remote store (a user of the wiki, another server)
\* pushes a commit: it rewrites or removes a page
OtherFiles == {<<"a">> \o MD}
OtherContents == {<<"y">>}

OtherWriter ==
    /\ remote.head < MaxHead
    /\ \E f \in OtherFiles :
        \/ \E c \in OtherContents :
              /\ (f \in DOMAIN remote.tree => remote.tree[f] # c)
              /\ remote' = [tree |-> WriteTree(remote.tree, f, c), head |-> remote.head + 1]
              /\ lastPush' = [tool |-> "other", file |-> f, content |-> c]
        \/ /\ f \in DOMAIN remote.tree
           /\ remote' = [tree |-> UnlinkTree(remote.tree, f), head |-> remote.head + 1]
           /\ lastPush' = [tool |-> "other", file |-> f, content |-> Undefined]
    /\ UNCHANGED inv
    /\ UNCHANGED nvars

Next == Step(Client) \/ OtherWriter

Spec == Init /\ [][Next]_vars

\* the steps of a started operation: every await of the operation settles,
\* so a started operation that can take a step takes one
Run(p) ==
    \/ cloneWiki(p)
    \/ WriteFile(p)
    \/ AppendRead(p)
    \/ AppendWrite(p)
    \/ Access(p)
    \/ Unlink(p)
    \/ ReadFile(p)
    \/ ListPages(p)
    \/ Add(p)
    \/ Commit(p)
    \/ Push(p)
    \/ Cleanup(p)

SpecLive == Init /\ [][Next]_vars /\ WF_vars(Run(Client))

\* ----------------------------------------------- concurrent specification
\* two invocations of the mutating operations run side by side on one
\* store, each once, on the same page or on two pages; the handler is
\* async, so the awaits of two requests interleave in any order
ConcPages == {<<"a", "!">>, <<"b">>}
ConcContents == {<<"x">>, <<"z">>}

ConcInvoke(p) ==
    /\ inv[p].pc = "idle"
    /\ \E name \in MutatingTools : \E pageName \in ConcPages :
            \E content \in (IF name = "delete_wiki_page" THEN {Undefined} ELSE ConcContents) :
                InvokeTool(p, name, pageName, content)

ConcNext ==
    \E p \in Procs :
        \/ ConcInvoke(p)
        \/ cloneWiki(p)
        \/ WriteFile(p)
        \/ AppendRead(p)
        \/ AppendWrite(p)
        \/ Access(p)
        \/ Unlink(p)
        \/ Add(p)
        \/ Commit(p)
        \/ Push(p)
        \/ Cleanup(p)

SpecConc == Init /\ [][ConcNext]_vars

\* -------------------------------------------------- listing specification
\* the entries a wiki store may hold at its root
ListNames ==
    { <<"a">> \o MD, <<"B">> \o MD, <<"A">> \o MD, <<"a", "-", "b">> \o MD,
      <<"c", ".", "t", "x", "t">>, <<"a">> \o MD \o <<"b">>, <<"a">> \o MD \o <<"b">> \o MD }

ListTrees == {[f \in S |-> <<"x">>] : S \in {T \in SUBSET ListNames : Cardinality(T) <= MaxFiles}}

ListInit ==
    /\ remote \in {[tree |-> t, head |-> 0] : t \in ListTrees}
    /\ lastPush = NoPush
    /\ inv = [p \in Procs |-> Idle]
    /\ NormOff

ListInvoke(p) == InvokeTool(p, "list_wiki_pages", Undefined, Undefined)

ListNext ==
    \/ ListInvoke(Client)
    \/ cloneWiki(Client)
    \/ ListPages(Client)
    \/ Cleanup(Client)

SpecList == ListInit /\ [][ListNext]_vars

\* ----------------------------------------------------------------- titles
TitleChars == {"a", "B", "1", " ", "\t", "!", ".", "m", "d", "-", "_"}

RECURSIVE SeqsUpTo(_, _)
SeqsUpTo(S, n) ==
    IF n = 0 THEN {<<>>}
    ELSE LET shorter == SeqsUpTo(S, n - 1)
         IN shorter \cup {Append(s, ch) : s \in {t \in shorter : Len(t) = n - 1}, ch \in S}

\* ---------------------------------------------------- write specification
\* one writeWikiPage per behaviour, for every title up to MaxWriteLen and
\* two wikis
WriteTitles == SeqsUpTo(TitleChars, MaxWriteLen)
WriteWikis == {<<"octocat", "hello">>, <<"acme", "docs.md">>}

WriteInvoke(p) ==
    /\ inv[p].pc = "idle"
    /\ \E wiki \in WriteWikis : \E title \in WriteTitles :
            InvokeFor(p, wiki[1], wiki[2], "write_wiki_page", title, <<"x">>)

WriteNext ==
    \/ WriteInvoke(Client)
    \/ cloneWiki(Client)
    \/ WriteFile(Client)
    \/ Add(Client)
    \/ Commit(Client)
    \/ Push(Client)
    \/ Cleanup(Client)

SpecWrite == Init /\ [][WriteNext]_vars

\* ----------------------------------------------------- path specification
\* one operation on a page per behaviour, for every title up to MaxWriteLen
\* over an alphabet with the separators and the dot, and for titles that
\* name a parent, a subdirectory, an absolute path and the .git directory
PathChars == {"a", " ", ".", "/", "\\", "m", "d", "-"}
PathExamples ==
    { <<".", ".", "/", ".", ".", "/", "e", "t", "c", "/", "p", "a", "s", "s", "w", "d">>,
      <<".", "g", "i", "t", "/", "c", "o", "n", "f", "i", "g">>,
      <<"/", "e", "t", "c", "/", "p", "a", "s", "s", "w", "d">>,
      <<".", ".", "\\", "x">>,
      <<"a", "/", ".", ".", "/", "b">>,
      <<".", "/", "a", ".", "m", "d">> }
PathTitles == SeqsUpTo(PathChars, MaxWriteLen) \cup PathExamples

PathInvoke(p) ==
    /\ inv[p].pc = "idle"
    /\ \E name \in PageTools : \E title \in PathTitles :
            InvokeTool(p, name, title,
                       IF name \in {"write_wiki_page", "append_to_wiki_page"}
                       THEN <<"x">> ELSE Undefined)

PathNext ==
    \/ PathInvoke(Client)
    \/ cloneWiki(Client)
    \/ WriteFile(Client)
    \/ AppendRead(Client)
    \/ AppendWrite(Client)
    \/ Access(Client)
    \/ Unlink(Client)
    \/ ReadFile(Client)
    \/ Add(Client)
    \/ Commit(Client)
    \/ Push(Client)
    \/ Cleanup(Client)

SpecPath == Init /\ [][PathNext]_vars

\* ------------------------------------------- normalization specification
Titles == SeqsUpTo(TitleChars, MaxLen)

\* the titles of the documented examples
ExampleTitles ==
    { <<"A", "r", "c", "h", "i", "t", "e", "t", "t", "u", "r", "a", " ", "d", "e", "l", " ", "S", "i", "s", "t", "e", "m", "a">>,
      <<"A", "P", "I", " ", "D", "o", "c", "u", "m", "e", "n", "t", "a", "t", "i", "o", "n", "!", "!">> }

NormInit ==
    /\ nPc = "input"
    /\ nTitle \in Titles \cup ExampleTitles
    /\ nFile = <<>>
    /\ nAgain = <<>>
    /\ remote = [tree |-> NoTree, head |-> 0]
    /\ lastPush = NoPush
    /\ inv = [p \in Procs |-> Idle]

\* fileName = normalizePageName(pageName)
Normalize ==
    /\ nPc = "input"
    /\ nFile' = normalizePageName(nTitle)
    /\ nPc' = "once"
    /\ UNCHANGED <<nTitle, nAgain>>
    /\ UNCHANGED wvars

\* the file name handed back as a title
Renormalize ==
    /\ nPc = "once"
    /\ nAgain' = normalizePageName(nFile)
    /\ nPc' = "twice"
    /\ UNCHANGED <<nTitle, nFile>>
    /\ UNCHANGED wvars

NormNext == Normalize \/ Renormalize

SpecNorm == NormInit /\ [][NormNext]_vars

\* C2: normalizing an already-normalized file name yields the same file name
C2_Idempotent == nPc = "twice" => nAgain = nFile

\* a title made of whitespace and disallowed characters only
OnlySpaceOrDisallowed(s) == \A i \in 1..Len(s) : IsSpace(s[i]) \/ ~AllowedChar(s[i])

\* number of maximal whitespace runs of s
SpaceRuns(s) == Cardinality({i \in 1..Len(s) : IsSpace(s[i]) /\ (i = 1 \/ ~IsSpace(s[i - 1]))})

\* C3 as stated: a title of whitespace and disallowed characters only
\* normalizes to exactly ".md"
C3_OnlyExtension ==
    (nPc # "input" /\ OnlySpaceOrDisallowed(nTitle)) => nFile = MD

\* C3 amended: such a title normalizes to one hyphen per maximal whitespace
\* run followed by ".md", hence to exactly ".md" when it has no whitespace
C3_HyphensThenExtension ==
    (nPc # "input" /\ OnlySpaceOrDisallowed(nTitle)) =>
        /\ nFile = [i \in 1..SpaceRuns(nTitle) |-> "-"] \o MD
        /\ (SpaceRuns(nTitle) = 0 => nFile = MD)

C3_Witness ==
    /\ nPc = "once"
    /\ OnlySpaceOrDisallowed(nTitle)
    /\ SpaceRuns(nTitle) = 1
    /\ Len(nTitle) = 3
    /\ nFile = <<"-">> \o MD

\* ------------------------------------------------------ workflow claims
Has(p, step) == \E i \in 1..Len(inv[p].steps) : inv[p].steps[i] = step

Done(p) == inv[p].pc = "done"

\* C1: an invocation that allocated a temporary directory has attempted its
\* removal exactly once when it returns, never before its last step and
\* never twice, and the directory is gone when that removal succeeded
C1_CleanupExactlyOnce ==
    \A p \in Procs :
        /\ inv[p].rmCount <= 1
        /\ (~inv[p].allocated => inv[p].rmCount = 0 /\ ~inv[p].dirExists)
        /\ (inv[p].allocated /\ ~Done(p) => inv[p].rmCount = 0 /\ inv[p].dirExists)
        /\ (inv[p].allocated /\ Done(p) =>
                /\ inv[p].rmCount = 1
                /\ inv[p].response.sent
                /\ (Has(p, "rm") => ~inv[p].dirExists))

C1_Witness ==
    /\ Done(Client)
    /\ inv[Client].tool = "write_wiki_page"
    /\ Has(Client, "push failed")
    /\ inv[Client].rmCount = 1
    /\ ~inv[Client].dirExists

\* C4: a read that clones the store while its last accepted push is a
\* successful write of the same page returns the content of that write,
\* unless the environment fails one of the read's own steps
C4_WriteReadRoundTrip ==
    \A p \in Procs :
        (/\ Done(p)
         /\ inv[p].tool = "read_wiki_page"
         /\ inv[p].seen.tool = "write_wiki_page"
         /\ inv[p].seen.file = inv[p].fileName)
        => /\ ~inv[p].fault => ~inv[p].response.isError /\ inv[p].response.payload.success
           /\ ~inv[p].response.isError => inv[p].response.payload.content = inv[p].seen.content
           /\ inv[p].response.payload.error.kind = "NotFound" => inv[p].fault

C4_Witness ==
    /\ Done(Client)
    /\ inv[Client].tool = "read_wiki_page"
    /\ inv[Client].seen.tool = "write_wiki_page"
    /\ inv[Client].seen.file = inv[Client].fileName
    /\ inv[Client].response.payload.success
    /\ inv[Client].response.payload.content = <<>>
    /\ remote.head > 0

\* the content append is to leave in the page, from the cloned snapshot
AppendExpected(p) ==
    IF inv[p].fileName \in DOMAIN inv[p].snap /\ inv[p].snap[inv[p].fileName] # <<>>
    THEN inv[p].snap[inv[p].fileName] \o Separator \o inv[p].content
    ELSE inv[p].content

\* C5: after a successful append of c the page pushed is e, a blank line and
\* c when the snapshot held the page with non-empty content e, and c alone
\* when the page was absent or empty
C5_AppendContent ==
    \A p \in Procs :
        (/\ Done(p)
         /\ inv[p].tool = "append_to_wiki_page"
         /\ inv[p].content # Undefined
         /\ ~inv[p].response.isError)
        => /\ inv[p].fileName \in DOMAIN inv[p].wc
           /\ inv[p].wc[inv[p].fileName] = AppendExpected(p)

\* C6: read and delete of a page absent from the snapshot fail with the
\* not-found error and stage, commit and push nothing; write and append
\* never fail with the not-found error
C6_NotFound ==
    \A p \in Procs :
        /\ (/\ Done(p)
            /\ inv[p].tool \in {"read_wiki_page", "delete_wiki_page"}
            /\ inv[p].tmpDir
            /\ inv[p].fileName \notin DOMAIN inv[p].snap)
           => /\ inv[p].response.isError
              /\ inv[p].response.payload.error = NotFound(inv[p].fileName)
              /\ ~Has(p, "add") /\ ~Has(p, "commit") /\ ~Has(p, "push")
              /\ ~Has(p, "push failed")
              /\ ~inv[p].pushed
        /\ (inv[p].tool \in {"write_wiki_page", "append_to_wiki_page"}
           => /\ inv[p].err.kind # "NotFound"
              /\ inv[p].response.payload.error.kind # "NotFound")

C6_Witness ==
    /\ Done(Client)
    /\ inv[Client].tool = "delete_wiki_page"
    /\ inv[Client].tmpDir
    /\ inv[Client].fileName \notin DOMAIN inv[Client].snap
    /\ inv[Client].response.payload.error.kind = "NotFound"

\* the records a successful listing returned
Listed(p) == inv[p].response.payload.pages

ListReturned(p) ==
    /\ Done(p)
    /\ inv[p].tool = "list_wiki_pages"
    /\ inv[p].response.sent
    /\ ~inv[p].response.isError

\* the entries of the working copy root after the clone
Entries(p) == DOMAIN inv[p].snap \cup {GitDir}

C8_NameIsPathWithoutExtension ==
    \A p \in Procs :
        ListReturned(p) =>
            \A i \in 1..Len(Listed(p)) :
                /\ Listed(p)[i].path \in Entries(p)
                /\ Listed(p)[i].name \o MD = Listed(p)[i].path

\* the operation of the invocation ran to its return statement
Returns(p) ==
    \/ inv[p].tool \in MutatingTools /\ Has(p, "push")
    \/ inv[p].tool = "read_wiki_page" /\ Has(p, "readFile")
    \/ inv[p].tool = "list_wiki_pages" /\ Has(p, "list")

\* C9: the handler never raises; it answers every invocation with one
\* result, a failure payload with isError exactly when the operation failed
\* or the tool is unknown, the payload of the operation otherwise
C9_HandlerTotal ==
    \A p \in Procs :
        /\ ~inv[p].response.raised
        /\ inv[p].response.sent <=> Done(p)
        /\ Done(p) =>
            /\ inv[p].response.isError <=> ~Returns(p)
            /\ inv[p].response.isError =>
                    /\ inv[p].response.payload.kind = "failure"
                    /\ ~inv[p].response.payload.success
                    /\ inv[p].response.payload.error.kind # "none"
            /\ ~inv[p].response.isError =>
                    /\ inv[p].response.payload = inv[p].result
                    /\ inv[p].response.payload.kind \in {"object", "array"}
                    /\ inv[p].response.payload.error.kind = "none"

C9_Witness ==
    /\ Done(Client)
    /\ inv[Client].tool = "unknown_tool"
    /\ inv[Client].response.isError
    /\ inv[Client].response.payload.error.kind = "UnknownTool"

\* C10: a mutating operation reports success only after its add, commit and
\* push, and one that reports failure has not changed the remote store
C10_NoPartialSuccess ==
    \A p \in Procs :
        (Done(p) /\ inv[p].tool \in MutatingTools) =>
            /\ ~inv[p].response.isError => Has(p, "add") /\ Has(p, "commit") /\ Has(p, "push")
            /\ inv[p].response.isError => ~inv[p].pushed

C10_Witness ==
    /\ Done(Client)
    /\ inv[Client].tool = "delete_wiki_page"
    /\ inv[Client].response.isError
    /\ Has(Client, "unlink")
    /\ Has(Client, "commit")
    /\ Has(Client, "push failed")
    /\ ~inv[Client].fault

\* number of steps of the invocation among the given ones
Count(p, S) == Cardinality({i \in 1..Len(inv[p].steps) : inv[p].steps[i] \in S})

\* the step of the client is a push the remote store cannot fast-forward
StalePush ==
    /\ inv[Client].pc = "push"
    /\ inv'[Client] # inv[Client]
    /\ remote.head # inv[Client].base

\* C11: an invocation clones at most once and pushes at most once; a push
\* behind the head of the remote store leaves the store as the other writer
\* left it and ends the invocation in a reported failure, with no second
\* clone, file operation or push
C11_NoRetry ==
    /\ [](\A p \in Procs :
            /\ Count(p, {"clone", "clone failed"}) <= 1
            /\ Count(p, {"push", "push failed"}) <= 1
            /\ Has(p, "push failed") =>
                    /\ inv[p].pc \in {"cleanup", "done"}
                    /\ inv[p].err.kind = "GitError"
                    /\ ~inv[p].pushed
                    /\ (Done(p) => inv[p].response.isError))
    /\ [][StalePush =>
            /\ remote' = remote
            /\ lastPush' = lastPush
            /\ inv'[Client].pc = "cleanup"
            /\ inv'[Client].steps = Append(inv[Client].steps, "push failed")]_vars

C11_Witness ==
    /\ Done(Client)
    /\ inv[Client].tool = "append_to_wiki_page"
    /\ Has(Client, "push failed")
    /\ ~inv[Client].fault
    /\ lastPush.tool = "other"
    /\ remote.head > inv[Client].base
    /\ inv[Client].response.isError

\* C12: the outcome of the removal of the temporary directory does not
\* decide between success and failure: leaving the finally clause, the
\* invocation reports a failure exactly when an error was pending before
\* the removal, and a failed clone is reported as a failure whether or not
\* the removal in cloneWiki succeeds
C12_CleanupNeutral ==
    [][\A p \in Procs :
        /\ (inv[p].pc = "cleanup" /\ inv'[p].pc = "done") =>
                /\ inv'[p].response.isError <=> inv[p].err.kind # "none"
                /\ ~inv'[p].response.isError => inv'[p].response.payload = inv[p].result
        /\ (inv[p].pc = "clone" /\ inv'[p].pc = "done") => inv'[p].response.isError]_vars

C12_Witness ==
    /\ Done(Client)
    /\ inv[Client].tool = "write_wiki_page"
    /\ Has(Client, "push")
    /\ Has(Client, "rm failed")
    /\ inv[Client].dirExists
    /\ ~inv[Client].response.isError

\* C13: whenever the clone fails the invocation fails with the error that
\* wraps the clone error, and runs no file operation, add, commit or push
C13_CloneFailureWrapped ==
    \A p \in Procs :
        Has(p, "clone failed") =>
            /\ Done(p)
            /\ inv[p].response.isError
            /\ inv[p].response.payload.error = FailedToClone
            /\ Len(inv[p].steps) = 2
            /\ ~inv[p].pushed

\* the characters a file name may hold before its extension
NameChars == LowerLetters \cup UpperLetters \cup Digits \cup {"-", "_"}

\* a file name: name characters followed by one ".md"
IsFileName(f) ==
    /\ EndsWith(f, MD)
    /\ \A i \in 1..(Len(f) - Len(MD)) : f[i] \in NameChars

\* C14: for every title the file name ends with ".md" and holds only
\* letters, digits, hyphens and underscores before that ".md"; this holds
\* again when a file name is normalized as a title
C14_FileNameShape ==
    /\ nPc \in {"once", "twice"} => IsFileName(nFile)
    /\ nPc = "twice" => IsFileName(nAgain)

C14_Witness ==
    /\ nPc = "once"
    /\ nTitle = <<".", "m", "d">>
    /\ nFile = <<"m", "d">> \o MD

\* the positions of a title that leave a character in the file name: an
\* allowed character, or the first character of a run of whitespace
Emitting(t) == {i \in 1..Len(t) : AllowedChar(t[i]) \/ (IsSpace(t[i]) /\ (i = 1 \/ ~IsSpace(t[i - 1])))}

\* C15: the file name is, in the order of the title, each allowed character
\* of the title and one hyphen per maximal run of whitespace, then ".md";
\* the two documented examples give the documented file names
C15_RunsToHyphens ==
    nPc = "once" =>
        /\ EndsWith(nFile, MD)
        /\ Len(nFile) = Cardinality(Emitting(nTitle)) + Len(MD)
        /\ \A i \in Emitting(nTitle) :
                nFile[Cardinality({j \in Emitting(nTitle) : j <= i})]
                    = (IF IsSpace(nTitle[i]) THEN "-" ELSE nTitle[i])
        /\ nTitle = <<"A", "r", "c", "h", "i", "t", "e", "t", "t", "u", "r", "a", " ", "d", "e", "l", " ", "S", "i", "s", "t", "e", "m", "a">> =>
                nFile = <<"A", "r", "c", "h", "i", "t", "e", "t", "t", "u", "r", "a", "-", "d", "e", "l", "-", "S", "i", "s", "t", "e", "m", "a", ".", "m", "d">>
        /\ nTitle = <<"A", "P", "I", " ", "D", "o", "c", "u", "m", "e", "n", "t", "a", "t", "i", "o", "n", "!", "!">> =>
                nFile = <<"A", "P", "I", "-", "D", "o", "c", "u", "m", "e", "n", "t", "a", "t", "i", "o", "n", ".", "m", "d">>

C15_Witness ==
    /\ nPc = "once"
    /\ nTitle = <<"A", "P", "I", " ", "D", "o", "c", "u", "m", "e", "n", "t", "a", "t", "i", "o", "n", "!", "!">>
    /\ nFile = <<"A", "P", "I", "-", "D", "o", "c", "u", "m", "e", "n", "t", "a", "t", "i", "o", "n", ".", "m", "d">>

\* C16: a successful write returns as page the normalized file name and as
\* url "https://github.com/" owner "/" repo "/wiki/" followed by that file
\* name without its trailing ".md", nothing else removed
C16_WriteResult ==
    \A p \in Procs :
        (Done(p) /\ inv[p].tool = "write_wiki_page" /\ ~inv[p].response.isError) =>
            LET page == inv[p].response.payload.page
            IN /\ page = normalizePageName(inv[p].pageName)
               /\ IsFileName(page)
               /\ inv[p].response.payload.url =
                    <<"https://github.com/", inv[p].owner, "/", inv[p].repo, "/wiki/">>
                        \o SubSeq(page, 1, Len(page) - Len(MD))

C16_Witness ==
    /\ Done(Client)
    /\ inv[Client].tool = "write_wiki_page"
    /\ inv[Client].pageName = <<"m", "d">>
    /\ inv[Client].repo = "docs.md"
    /\ inv[Client].response.payload.success
    /\ inv[Client].response.payload.url = <<"https://github.com/", "acme", "/", "docs.md", "/wiki/", "m", "d">>

\* the operations that only inspect the wiki, and the steps of git that
\* record or publish a change
ReadOnlyTools == {"read_wiki_page", "list_wiki_pages"}
GitSteps == {"add", "add failed", "commit", "commit failed", "push", "push failed"}
Running(p) == inv[p].pc \notin {"idle", "done"}

\* C17: an execution of readWikiPage or listWikiPages never stages, commits
\* or pushes, whether it succeeds or fails, and none of its steps changes
\* the remote store
C17_ReadOnly ==
    /\ [](\A p \in Procs :
            inv[p].tool \in ReadOnlyTools => Count(p, GitSteps) = 0 /\ ~inv[p].pushed)
    /\ [][\A p \in Procs :
            (inv[p].tool \in ReadOnlyTools /\ Running(p) /\ inv'[p] # inv[p]) =>
                remote' = remote /\ lastPush' = lastPush]_vars

C17_Witness ==
    /\ Done(Client)
    /\ inv[Client].tool = "read_wiki_page"
    /\ inv[Client].response.payload.success
    /\ inv[Client].steps = <<"clone", "access", "readFile", "rm">>
    /\ remote.head = inv[Client].base

\* the steps of a mutating operation before its cleanup, in program order,
\* and the log entry of the failure of each
Canonical(tool) ==
    CASE tool = "write_wiki_page" -> <<"clone", "writeFile", "add", "commit", "push">>
      [] tool = "append_to_wiki_page" -> <<"clone", "writeFile", "add", "commit", "push">>
      [] tool = "delete_wiki_page" -> <<"clone", "access", "unlink", "add", "commit", "push">>

FailureOf(step) ==
    CASE step = "clone" -> "clone failed"
      [] step = "writeFile" -> "writeFile failed"
      [] step = "access" -> "access failed"
      [] step = "unlink" -> "unlink failed"
      [] step = "add" -> "add failed"
      [] step = "commit" -> "commit failed"
      [] step = "push" -> "push failed"

RmSteps == {"rm", "rm failed"}
IsWorkStep(step) == step \notin RmSteps \cup {"readExisting", "readExisting failed"}

\* the log is a run of successes in program order, then at most one failure
\* of the step that comes next
InOrder(tool, work) ==
    \E k \in 0..Len(Canonical(tool)) :
        \/ work = SubSeq(Canonical(tool), 1, k)
        \/ /\ k < Len(Canonical(tool))
           /\ work = Append(SubSeq(Canonical(tool), 1, k), FailureOf(Canonical(tool)[k + 1]))

\* C18: a mutating operation clones, changes the file, stages, commits and
\* pushes in this order, each step after the success of the one before; a
\* failure skips every later step but the removal of the directory, which
\* comes last
C18_StepOrder ==
    \A p \in Procs :
        inv[p].tool \in MutatingTools =>
            /\ InOrder(inv[p].tool, SelectSeq(inv[p].steps, IsWorkStep))
            /\ Count(p, RmSteps) <= 1
            /\ \A i \in 1..Len(inv[p].steps) :
                    inv[p].steps[i] \in RmSteps => i = Len(inv[p].steps) /\ Done(p)
            /\ inv[p].pc = "push" =>
                    SelectSeq(inv[p].steps, IsWorkStep) =
                        SubSeq(Canonical(inv[p].tool), 1, Len(Canonical(inv[p].tool)) - 1)

C18_Witness ==
    /\ Done(Client)
    /\ inv[Client].tool = "delete_wiki_page"
    /\ inv[Client].steps = <<"clone", "access", "unlink", "add", "commit failed", "rm">>
    /\ inv[Client].response.isError

\* an argument the tool's inputSchema.required names is absent
MissingRequired(p) ==
    \/ inv[p].tool \in PageTools /\ inv[p].pageName = Undefined
    \/ inv[p].tool \in {"write_wiki_page", "append_to_wiki_page"} /\ inv[p].content = Undefined

\* C19: an invocation that lacks a required argument is reported as a
\* failure and pushes no commit
C19_MissingArgumentFails ==
    \A p \in Procs :
        (Done(p) /\ MissingRequired(p)) => inv[p].response.isError /\ ~inv[p].pushed

\* C20: when every external step returns, a started operation reaches a
\* terminal outcome, a result or a failure with its reason; no execution
\* loops or waits forever
C20_Terminates ==
    \A p \in {Client} :
        Running(p) ~>
            /\ Done(p)
            /\ inv[p].response.sent
            /\ inv[p].response.isError => inv[p].response.payload.error.kind # "none"

C20_Witness ==
    /\ Done(Client)
    /\ inv[Client].response.sent
    /\ inv[Client].tool = "write_wiki_page"
    /\ inv[Client].steps = <<"clone", "writeFile", "add", "commit", "push failed", "rm failed">>
    /\ inv[Client].response.payload.error.kind = "GitError"

\* what the operation of invocation p makes of a tree: the page written,
\* the content appended to the page, the page removed
Apply(p, tree) ==
    LET f == inv[p].fileName
    IN CASE inv[p].tool = "write_wiki_page" -> WriteTree(tree, f, inv[p].content)
         [] inv[p].tool = "append_to_wiki_page" ->
                WriteTree(tree, f, NewContent(IF f \in DOMAIN tree THEN tree[f] ELSE <<>>,
                                              inv[p].content))
         [] inv[p].tool = "delete_wiki_page" -> UnlinkTree(tree, f)

\* the step in which the push of invocation p is accepted
Pushes(p) == inv[p].pc = "push" /\ inv'[p].steps = Append(inv[p].steps, "push")

\* the invocation reported success and read what its working copy held
Succeeded(p) ==
    Done(p) /\ inv[p].tool \in MutatingTools /\ ~inv[p].response.isError /\ ~inv[p].fault

\* C21: no update is lost among concurrent writers. The remote store
\* changes only when a push is accepted, an accepted push leaves it as the
\* operation applied to the content it held at that moment, an invocation
\* that reports success had its push accepted, and when both invocations
\* have succeeded the store holds the one applied after the other
C21_NoLostUpdate ==
    /\ [][/\ remote' # remote => \E p \in Procs : Pushes(p)
          /\ \A p \in Procs :
                (Pushes(p) /\ ~inv[p].fault) =>
                    /\ remote.head = inv[p].base
                    /\ remote'.tree = Apply(p, remote.tree)]_vars
    /\ [](\A p \in Procs : Succeeded(p) => Has(p, "push"))
    /\ []((\A p \in Procs : Succeeded(p)) =>
            \E p, q \in Procs :
                /\ p # q
                /\ inv[p].base <= inv[q].base
                /\ remote.tree = Apply(q, Apply(p, inv[p].snap)))

C21_Witness ==
    /\ \A p \in Procs : Succeeded(p) /\ inv[p].tool = "append_to_wiki_page"
    /\ inv[1].content = <<"x">>
    /\ inv[2].content = <<"z">>
    /\ inv[2].base < inv[1].base
    /\ \A p \in Procs : inv[p].fileName = <<"a">> \o MD
    /\ remote.tree[<<"a">> \o MD] = <<"x">> \o Separator \o <<"z">> \o Separator \o <<"x">>

\* the file an operation on a page touches: path.join(tmpDir, fileName)
filePath(p) == pathJoin(TmpDir, inv[p].fileName)

\* the operation has resolved its title
Resolved(p) == inv[p].tool \in PageTools /\ inv[p].pageName # Undefined

\* C22: for every title the file name an operation resolves holds no path
\* separator and no "." but that of its final ".md", so the file it reads,
\* writes or removes is a direct child of its temporary directory, never
\* the .git directory, and no other entry of the working copy changes
C22_PathConfined ==
    \A p \in Procs :
        Resolved(p) =>
            LET f == inv[p].fileName
            IN /\ \A i \in 1..Len(f) : f[i] \notin PathSeparators
               /\ \A i \in 1..Len(f) : f[i] = "." => i = Len(f) - 2
               /\ EndsWith(f, MD)
               /\ f # GitDir
               /\ filePath(p) = Append(TmpDir, f)
               /\ \A g \in (DOMAIN inv[p].wc \cup DOMAIN inv[p].snap) \ {f} :
                    /\ g \in DOMAIN inv[p].wc
                    /\ g \in DOMAIN inv[p].snap
                    /\ inv[p].wc[g] = inv[p].snap[g]

C22_Witness ==
    /\ Done(Client)
    /\ inv[Client].tool = "write_wiki_page"
    /\ inv[Client].pageName = <<".", ".", "/", ".", ".", "/", "e", "t", "c", "/", "p", "a", "s", "s", "w", "d">>
    /\ inv[Client].response.payload.success
    /\ filePath(Client) = Append(TmpDir, <<"e", "t", "c", "p", "a", "s", "s", "w", "d", ".", "m", "d">>)
    /\ DOMAIN remote.tree \ DOMAIN inv[Client].snap = {<<"e", "t", "c", "p", "a", "s", "s", "w", "d", ".", "m", "d">>}
====
